---- MODULE Spec2Model ----
(***************************************************************************)
(* State-machine model of packages/devac-core/src/parsers/python_parser.py *)
(* (DevAC v2.0 Python structural parser): the command-line entry point     *)
(* main, the aggregator parse_python_file and the ast.NodeVisitor          *)
(* DevACPythonParser, whose recursive descent is unrolled into an explicit *)
(* stack of visitor frames.                                                *)
(*                                                                         *)
(* Conventions.  A Python string that is built by joining segments         *)
(* (a dotted scoped name, a ':'-separated id) is the sequence of its       *)
(* segments; None and "" for such strings are both the empty sequence,     *)
(* which is exactly the set of values Python treats as false.  The digest  *)
(* primitive is taken to be injective: a digest is its argument, tagged.   *)
(***************************************************************************)
EXTENDS Integers, Sequences, FiniteSets, TLC

(***************************************************************************)
(* Bounds                                                                  *)
(***************************************************************************)
\* deepest nesting of class / function declarations in an input program
MaxNest == 2
\* number of visitor frames the interpreter allows before RecursionError
RecursionLimit == 6
\* largest value the wall clock takes
MaxClock == 1
\* longest raw byte prefix of a file
MaxBytes == 2

(***************************************************************************)
(* State                                                                   *)
(***************************************************************************)
VARIABLES
    argv,       \* sys.argv of each invocation
    fs,         \* the files at the paths
    clock,      \* the wall clock
    accessed,   \* invocations that have called open()
    pc,         \* where each invocation stands
    config,     \* main's config
    locals,     \* parse_python_file's start_time, source, source_hash, tree, warnings
    parser,     \* the DevACPythonParser object
    stack,      \* the active visit calls, outermost first
    result,     \* the value parse_python_file returned
    exit_code,  \* -1 while the process runs
    stdout,     \* "" or "result": the pretty-printed result
    stderr      \* "", "error_object" or "traceback"

vars == <<argv, fs, clock, accessed, pc, config, locals, parser, stack, result,
          exit_code, stdout, stderr>>

\* the two invocations (solo runs use only the first)
Inv == {1, 2}

\* blank string / None for ids and names built from segments
None == <<>>

(***************************************************************************)
(* Syntax trees, as the front-end (ast.parse) hands them over.  Only the   *)
(* fields the visitor reads are kept.                                      *)
(***************************************************************************)
NoNode == [kind |-> "None"]

Name(id) == [kind |-> "Name", id |-> id]

Constant == [kind |-> "Constant"]

Attribute(value, attr) == [kind |-> "Attribute", value |-> value, attr |-> attr]

Subscript(value, slice) == [kind |-> "Subscript", value |-> value, slice |-> slice]

Call(func, args) == [kind |-> "Call", func |-> func, args |-> args]

BinOp(left, right) == [kind |-> "BinOp", left |-> left, right |-> right]

Yield == [kind |-> "Yield"]

Expr(value) == [kind |-> "Expr", value |-> value]

Pass == [kind |-> "Pass"]

Assign(targets, value) == [kind |-> "Assign", targets |-> targets, value |-> value]

AnnAssign(target, annotation, value) ==
    [kind |-> "AnnAssign", target |-> target, annotation |-> annotation, value |-> value]

alias(name, asname) == [kind |-> "alias", name |-> name, asname |-> asname]

Import(names) == [kind |-> "Import", names |-> names]

ImportFrom(module, level, names) ==
    [kind |-> "ImportFrom", module |-> module, level |-> level, names |-> names]

arg(a, annotation) == [kind |-> "arg", arg |-> a, annotation |-> annotation]

arguments(posonlyargs, args, vararg, kwonlyargs, kw_defaults, kwarg, defaults) ==
    [kind |-> "arguments", posonlyargs |-> posonlyargs, args |-> args,
     vararg |-> vararg, kwonlyargs |-> kwonlyargs, kw_defaults |-> kw_defaults,
     kwarg |-> kwarg, defaults |-> defaults]

ClassDef(name, bases, body, decorator_list) ==
    [kind |-> "ClassDef", name |-> name, bases |-> bases, body |-> body,
     decorator_list |-> decorator_list]

FunctionDef(name, args, body, decorator_list, returns) ==
    [kind |-> "FunctionDef", name |-> name, args |-> args, body |-> body,
     decorator_list |-> decorator_list, returns |-> returns]

AsyncFunctionDef(name, args, body, decorator_list, returns) ==
    [kind |-> "AsyncFunctionDef", name |-> name, args |-> args, body |-> body,
     decorator_list |-> decorator_list, returns |-> returns]

Module(body) == [kind |-> "Module", body |-> body]

\* an optional child field: absent when None
Opt(n) == IF n = NoNode THEN <<>> ELSE <<n>>

\* ast.iter_fields order of the child nodes that NodeVisitor.generic_visit visits
Children(n) ==
    CASE n.kind = "Module" -> n.body
      [] n.kind = "ClassDef" -> n.bases \o n.body \o n.decorator_list
      [] n.kind \in {"FunctionDef", "AsyncFunctionDef"} ->
            <<n.args>> \o n.body \o n.decorator_list \o Opt(n.returns)
      [] n.kind = "arguments" ->
            n.posonlyargs \o n.args \o Opt(n.vararg) \o n.kwonlyargs
              \o n.kw_defaults \o Opt(n.kwarg) \o n.defaults
      [] n.kind = "arg" -> Opt(n.annotation)
      [] n.kind = "Expr" -> <<n.value>>
      [] n.kind = "Assign" -> n.targets \o <<n.value>>
      [] n.kind = "AnnAssign" -> <<n.target, n.annotation>> \o Opt(n.value)
      [] n.kind = "Call" -> <<n.func>> \o n.args
      [] n.kind = "Attribute" -> <<n.value>>
      [] n.kind = "Subscript" -> <<n.value, n.slice>>
      [] n.kind = "BinOp" -> <<n.left, n.right>>
      [] n.kind \in {"Import", "ImportFrom"} -> n.names
      [] OTHER -> <<>>

(***************************************************************************)
(* Pure helpers of DevACPythonParser                                       *)
(***************************************************************************)
\* ast.unparse on the expressions used as base classes, decorators and
\* annotations: the source text, as its sequence of tokens, '.' left out
RECURSIVE Unparse(_)
Unparse(e) ==
    CASE e.kind = "Name" -> <<e.id>>
      [] e.kind = "Attribute" -> Unparse(e.value) \o <<e.attr>>
      [] e.kind = "Subscript" -> Unparse(e.value) \o <<"[">> \o Unparse(e.slice) \o <<"]">>
      [] e.kind = "Call" -> Unparse(e.func) \o <<"(", ")">>
      [] e.kind = "Constant" -> <<"0">>
      [] OTHER -> <<"?">>

\* variant: a per-call salt (the time of the call) in place of a pure digest
_generate_scope_hash_salted(scoped_name) == <<scoped_name, <<"t", clock>>>>

\* hashlib.sha256(scoped_name.encode()).hexdigest()[:12], digest taken injective
_generate_scope_hash(scoped_name) == <<scoped_name>>

\* variant: the kind is left out of the id
_generate_entity_id_kindless(p, kind, scoped_name) ==
    <<p.repo_name, p.package_path, "entity", _generate_scope_hash(scoped_name)>>

\* f"{self.repo_name}:{self.package_path}:{kind}:{scope_hash}"
_generate_entity_id(p, kind, scoped_name) ==
    <<p.repo_name, p.package_path, kind, _generate_scope_hash(scoped_name)>>

\* ".".join(self.scope_stack + [name]), or name when the stack is empty
_get_scoped_name(p, name) ==
    IF p.scope_stack # <<>> THEN p.scope_stack \o <<name>> ELSE <<name>>

_get_qualified_name(p, name) == _get_scoped_name(p, name)

_get_type_annotation(annotation) ==
    IF annotation = NoNode THEN None ELSE Unparse(annotation)

_has_decorator(decorators, name) ==
    \E k \in 1..Len(decorators) :
        \/ decorators[k].kind = "Name" /\ decorators[k].id = name
        \/ decorators[k].kind = "Attribute" /\ decorators[k].attr = name

\* variant: the walk does not enter nested function declarations
RECURSIVE _is_generator_own_body(_)
_is_generator_own_body(n) ==
    \/ n.kind = "Yield"
    \/ \E k \in 1..Len(Children(n)) :
          /\ Children(n)[k].kind \notin {"FunctionDef", "AsyncFunctionDef"}
          /\ _is_generator_own_body(Children(n)[k])

\* ast.walk(node) meets a Yield / YieldFrom
RECURSIVE _is_generator(_)
_is_generator(n) ==
    \/ n.kind = "Yield"
    \/ \E k \in 1..Len(Children(n)) : _is_generator(Children(n)[k])

\* variant: an edge whose edge_id is in the list already is not appended
_add_edge_deduplicated(p, edge_type, source_entity_id, target_entity_id, extra) ==
    IF \E e \in 1..Len(p.edges) :
          p.edges[e].edge_id = <<edge_type, source_entity_id, target_entity_id>>
    THEN p
    ELSE [p EXCEPT !.edges = Append(@,
            [edge_id |-> <<edge_type, source_entity_id, target_entity_id>>,
             edge_type |-> edge_type,
             source_entity_id |-> source_entity_id,
             target_entity_id |-> target_entity_id,
             source_file_path |-> p.filepath,
             extra |-> extra])]

\* variant: the edge runs from its target to its source
_add_edge_reversed(p, edge_type, source_entity_id, target_entity_id, extra) ==
    [p EXCEPT !.edges = Append(@,
        [edge_id |-> <<edge_type, target_entity_id, source_entity_id>>,
         edge_type |-> edge_type,
         source_entity_id |-> target_entity_id,
         target_entity_id |-> source_entity_id,
         source_file_path |-> p.filepath,
         extra |-> extra])]

\* f"{edge_type}:{source_entity_id}:{target_entity_id}" and the edge record
_add_edge(p, edge_type, source_entity_id, target_entity_id, extra) ==
    [p EXCEPT !.edges = Append(@,
        [edge_id |-> <<edge_type, source_entity_id, target_entity_id>>,
         edge_type |-> edge_type,
         source_entity_id |-> source_entity_id,
         target_entity_id |-> target_entity_id,
         source_file_path |-> p.filepath,
         extra |-> extra])]

\* the type-specific attributes of an edge; None where the edge has none
NoEdgeExtra == [target_name |-> None, callee |-> None, argument_count |-> 0]

NoExtra == [flags |-> {}, type_annotation |-> None, return_type |-> None,
            decorators |-> <<>>]

\* the id _add_node gives the node it appends
NodeId(p, kind, name) == _generate_entity_id(p, kind, _get_scoped_name(p, name))

\* variant: the parent is ignored and no CONTAINS edge is added
_add_node_unparented(p, kind, name, parent_entity_id, extra) ==
    [p EXCEPT !.nodes = Append(@,
        [entity_id |-> NodeId(p, kind, name), kind |-> kind, name |-> name,
         qualified_name |-> _get_qualified_name(p, name),
         file_path |-> p.filepath, language |-> "python",
         is_exported |-> TRUE, extra |-> extra])]

_add_node(p, kind, name, parent_entity_id, extra) ==
    LET entity_id == NodeId(p, kind, name)
        node_data == [entity_id |-> entity_id, kind |-> kind, name |-> name,
                      qualified_name |-> _get_qualified_name(p, name),
                      file_path |-> p.filepath, language |-> "python",
                      is_exported |-> TRUE, extra |-> extra]
        q == [p EXCEPT !.nodes = Append(@, node_data)]
    IN IF parent_entity_id # None
       THEN _add_edge(q, "CONTAINS", parent_entity_id, entity_id, NoEdgeExtra)
       ELSE q

\* module_specifier.startswith(".")
StartsWithDot(module_specifier) ==
    module_specifier # <<>> /\ module_specifier[1] = "."

\* variant: local_name is whatever alias was given
_add_external_ref_aliased(p, module_specifier, imported_symbol, source_entity_id, local_name) ==
    [p EXCEPT !.external_refs = Append(@,
        [source_entity_id |-> source_entity_id,
         source_file_path |-> p.filepath,
         module_specifier |-> module_specifier,
         imported_symbol |-> imported_symbol,
         is_type_only |-> FALSE,
         is_relative |-> StartsWithDot(module_specifier),
         local_name |-> local_name])]

_add_external_ref(p, module_specifier, imported_symbol, source_entity_id, local_name) ==
    [p EXCEPT !.external_refs = Append(@,
        [source_entity_id |-> source_entity_id,
         source_file_path |-> p.filepath,
         module_specifier |-> module_specifier,
         imported_symbol |-> imported_symbol,
         is_type_only |-> FALSE,
         is_relative |-> StartsWithDot(module_specifier),
         local_name |-> IF local_name # None /\ local_name # imported_symbol
                        THEN local_name ELSE None])]

RECURSIVE _extract_object_name(_)
_extract_object_name(node) ==
    CASE node.kind = "Name" -> <<node.id>>
      [] node.kind = "Attribute" ->
            LET obj_name == _extract_object_name(node.value)
            IN IF obj_name # None THEN obj_name \o <<node.attr>> ELSE <<node.attr>>
      [] OTHER -> None

RECURSIVE _extract_callee_name(_)
\* variant: no name when the base of an attribute access has none
_extract_callee_name_strict(func) ==
    CASE func.kind = "Name" -> <<func.id>>
      [] func.kind = "Attribute" ->
            LET obj_name == _extract_object_name(func.value)
            IN IF obj_name # None /\ func.value.kind \in {"Name", "Attribute"}
               THEN obj_name \o <<func.attr>> ELSE None
      [] func.kind = "Subscript" -> _extract_callee_name(func.value)
      [] OTHER -> None

_extract_callee_name(func) ==
    CASE func.kind = "Name" -> <<func.id>>
      [] func.kind = "Attribute" ->
            LET obj_name == _extract_object_name(func.value)
            IN IF obj_name # None THEN obj_name \o <<func.attr>> ELSE <<func.attr>>
      [] func.kind = "Call" -> None
      [] func.kind = "Subscript" -> _extract_callee_name(func.value)
      [] OTHER -> None

\* os.path.basename(self.filepath), as the segments around its '.'
Basename(filepath) == <<filepath, "py">>

\* the synthesized module-level id of visit_Import / visit_ImportFrom / visit_Call
ModuleId(p) == _generate_entity_id(p, "module", Basename(p.filepath))

(***************************************************************************)
(* Input programs.  A file is a raw byte prefix, where line endings and    *)
(* encoding show, followed by code; the code is named by what the          *)
(* front-end makes of it: a tree, a SyntaxError, or another failure.       *)
(***************************************************************************)
\* the bytes 0x0A, 0x0D, 0x61 and 0xFF (which no UTF-8 text contains)
Bytes == {"LF", "CR", "a", "xFF"}

RECURSIVE SeqsUpTo(_, _)
SeqsUpTo(S, n) ==
    IF n = 0 THEN {<<>>}
    ELSE LET shorter == SeqsUpTo(S, n - 1)
         IN shorter \cup {Append(q, x) : q \in {r \in shorter : Len(r) = n - 1}, x \in S}

ByteSeqs == SeqsUpTo(Bytes, MaxBytes)

NoArgs == arguments(<<>>, <<>>, NoNode, <<>>, <<>>, NoNode, <<>>)

SelfX == arguments(<<>>, <<arg("self", NoNode), arg("x", NoNode)>>, NoNode,
                   <<>>, <<>>, NoNode, <<>>)

AssignX == Assign(<<Name("x")>>, Constant)

CallFoo == Expr(Call(Name("foo"), <<>>))

ImportOs == Import(<<alias(<<"os">>, None)>>)

\* an expression nested deeply enough to exhaust the frames inside a scope
DeepExpr == Expr(BinOp(BinOp(BinOp(Constant, Constant), Constant), Constant))

LeafStmts == {AssignX, CallFoo, ImportOs, DeepExpr}

TrailStmts == {AssignX, CallFoo}

\* a body: one statement, possibly followed by a simple one
Bodies(S) == {<<st>> : st \in S} \cup {<<st, l>> : st \in S, l \in TrailStmts}

Defs(body) ==
    { ClassDef("A", <<Name("B")>>, body, <<>>),
      FunctionDef("f", SelfX, body, <<>>, NoNode) }

RECURSIVE Stmts(_)
Stmts(d) ==
    IF d = 0 THEN LeafStmts
    ELSE LeafStmts \cup UNION {Defs(body) : body \in Bodies(Stmts(d - 1))}

GeneratedModules == {Module(body) : body \in Bodies(Stmts(MaxNest))}

\* a name that is declared as a function and then assigned twice
RedefinitionModule ==
    Module(<<FunctionDef("x", NoArgs, <<Pass>>, <<>>, NoNode), AssignX, AssignX>>)

\* def h(a, /, b, self, *v, k: int = 0, **kw)
EveryKindOfArg ==
    arguments(<<arg("a", NoNode)>>, <<arg("b", NoNode), arg("self", NoNode)>>,
              arg("v", NoNode), <<arg("k", Name("int"))>>, <<Constant>>,
              arg("kw", NoNode), <<>>)

\* def m(x, cls, y)
ClsSecond ==
    arguments(<<>>, <<arg("x", NoNode), arg("cls", NoNode), arg("y", NoNode)>>,
              NoNode, <<>>, <<>>, NoNode, <<>>)

\* a function with every kind of parameter, and a method whose second
\* parameter is named cls
ParameterModule ==
    Module(<<FunctionDef("h", EveryKindOfArg, <<Pass>>, <<>>, NoNode),
             ClassDef("A", <<>>,
               <<FunctionDef("m", ClsSecond, <<Pass>>, <<>>, NoNode)>>, <<>>)>>)

\* a.b.c(); t[0](); foo()(); foo().bar(); t[0].run()
CalleeModule ==
    Module(<<Expr(Call(Attribute(Attribute(Name("a"), "b"), "c"), <<>>)),
             Expr(Call(Subscript(Name("t"), Constant), <<>>)),
             Expr(Call(Call(Name("foo"), <<>>), <<>>)),
             Expr(Call(Attribute(Call(Name("foo"), <<>>), "bar"), <<>>)),
             Expr(Call(Attribute(Subscript(Name("t"), Constant), "run"), <<Constant>>))>>)

\* def f(x=d())
DefaultFromCall ==
    arguments(<<>>, <<arg("x", NoNode)>>, NoNode, <<>>, <<>>, NoNode,
              <<Call(Name("d"), <<>>)>>)

\* @dec()
\* def f(x=d()): foo()
\* foo()
DecoratedModule ==
    Module(<<FunctionDef("f", DefaultFromCall, <<CallFoo>>,
                         <<Call(Name("dec"), <<>>)>>, NoNode),
             CallFoo>>)

\* assignments at module level, in a class, in a method, and in a class
\* declared inside a function
AssignmentModule ==
    Module(<<AssignX,
             ClassDef("C", <<>>,
               <<AnnAssign(Name("y"), Name("int"), NoNode),
                 FunctionDef("m", NoArgs, <<AssignX>>, <<>>, NoNode)>>, <<>>),
             FunctionDef("f", NoArgs,
               <<ClassDef("K", <<>>, <<AssignX>>, <<>>)>>, <<>>, NoNode)>>)

\* a function declared inside a method, and one declared after the class
NestedMethodModule ==
    Module(<<ClassDef("A", <<>>,
               <<FunctionDef("m", SelfX,
                   <<FunctionDef("g", NoArgs, <<Pass>>, <<>>, NoNode)>>,
                   <<>>, NoNode)>>, <<>>),
             AsyncFunctionDef("g", NoArgs, <<Pass>>, <<>>, NoNode)>>)

\* class O:
\*     class A(B, m.C): pass
BasesModule ==
    Module(<<ClassDef("O", <<>>,
               <<ClassDef("A", <<Name("B"), Attribute(Name("m"), "C")>>,
                          <<Pass>>, <<>>)>>, <<>>)>>)

\* import os, a.b as c
\* from m import n as n, k as j
\* from .. import *
ImportsModule ==
    Module(<<Import(<<alias(<<"os">>, None), alias(<<"a", "b">>, <<"c">>)>>),
             ImportFrom(<<"m">>, 0, <<alias(<<"n">>, <<"n">>), alias(<<"k">>, <<"j">>)>>),
             ImportFrom(<<>>, 2, <<alias(<<"*">>, None)>>)>>)

\* def outer():
\*     def inner(): yield
\* def plain(): foo()
GeneratorModule ==
    Module(<<FunctionDef("outer", NoArgs,
               <<FunctionDef("inner", NoArgs, <<Expr(Yield)>>, <<>>, NoNode)>>,
               <<>>, NoNode),
             FunctionDef("plain", NoArgs, <<CallFoo>>, <<>>, NoNode)>>)

\* def h(y: t() = d())
AnnotatedFromCall ==
    arguments(<<>>, <<arg("y", Call(Name("t"), <<>>))>>, NoNode, <<>>, <<>>, NoNode,
              <<Call(Name("d"), <<>>)>>)

\* def f():
\*     @dec()
\*     def g() -> r(): pass
\* def h(y: t() = d()): pass
DeclarationCallsModule ==
    Module(<<FunctionDef("f", NoArgs,
               <<FunctionDef("g", NoArgs, <<Pass>>, <<Call(Name("dec"), <<>>)>>,
                             Call(Name("r"), <<>>))>>,
               <<>>, NoNode),
             FunctionDef("h", AnnotatedFromCall, <<Pass>>, <<>>, NoNode)>>)

\* hand-written programs for the shapes the generator leaves out
FixtureModules ==
    { Module(<<>>),
      DeclarationCallsModule,
      GeneratorModule,
      ImportsModule,
      BasesModule,
      NestedMethodModule,
      AssignmentModule,
      DecoratedModule,
      CalleeModule,
      RedefinitionModule,
      ParameterModule,
      Module(<<ClassDef("B", <<>>, <<Pass>>, <<>>),
               ClassDef("A", <<Name("B")>>, <<AssignX>>, <<>>)>>),
      Module(<<ImportFrom(<<"pkg">>, 1, <<alias(<<"n">>, <<"m">>)>>),
               AnnAssign(Name("T"), Name("type"), Name("int")),
               AnnAssign(Name("MAX"), Name("int"), Constant),
               Assign(<<Name("X")>>, Constant)>>),
      Module(<<ClassDef("O", <<>>,
                 <<ClassDef("B", <<>>, <<Pass>>, <<>>),
                   ClassDef("A", <<Name("B")>>, <<Pass>>, <<>>),
                   AssignX, AssignX,
                   Assign(<<Name("y"), Name("y")>>, Constant)>>, <<>>)>>),
      Module(<<ClassDef("A", <<Attribute(Name("m"), "B")>>,
                 <<AsyncFunctionDef("f", SelfX,
                     <<Expr(Call(Attribute(Name("self"), "g"), <<Name("x")>>)),
                       Expr(Yield)>>,
                     <<Name("staticmethod")>>, Name("int"))>>,
                 <<Name("dec")>>)>>),
      Module(<<FunctionDef("f", NoArgs,
                 <<FunctionDef("g", SelfX, <<CallFoo>>, <<>>, NoNode),
                   ClassDef("K", <<>>, <<AssignX>>, <<>>),
                   AssignX, ImportOs>>, <<>>, NoNode),
               ClassDef("C", <<>>, <<AssignX>>, <<>>),
               CallFoo>>) }

OkCode(tree) == [outcome |-> "ok", tree |-> tree]

SyntaxErrorCode == [outcome |-> "syntax", tree |-> NoNode]

\* text the front-end gives up on without a SyntaxError (RecursionError
\* "during ast construction", MemoryError)
FailCode == [outcome |-> "fail", tree |-> NoNode]

TinyCode == OkCode(Module(<<AssignX>>))

SmallCodes == {SyntaxErrorCode, FailCode, TinyCode}

AllCodes == SmallCodes \cup {OkCode(m) : m \in GeneratedModules \cup FixtureModules}

RegularFile(bytes, code) == [type |-> "regular", bytes |-> bytes, code |-> code]

\* no directory entry at the path
MissingFile == [type |-> "missing", bytes |-> <<>>, code |-> FailCode]

\* an entry open() refuses (a directory, no permission)
UnreadableFile == [type |-> "unreadable", bytes |-> <<>>, code |-> FailCode]

(***************************************************************************)
(* open(filepath, "r", encoding="utf-8").read(): strict UTF-8 decoding,    *)
(* then universal-newline translation of the decoded text.                 *)
(***************************************************************************)
Decodable(bytes) == \A k \in 1..Len(bytes) : bytes[k] # "xFF"

RECURSIVE TranslateNewlines(_)
TranslateNewlines(bytes) ==
    IF bytes = <<>> THEN <<>>
    ELSE IF bytes[1] = "CR"
         THEN IF Len(bytes) >= 2 /\ bytes[2] = "LF"
              THEN <<"LF">> \o TranslateNewlines(SubSeq(bytes, 3, Len(bytes)))
              ELSE <<"LF">> \o TranslateNewlines(Tail(bytes))
         ELSE <<bytes[1]>> \o TranslateNewlines(Tail(bytes))

\* the str that f.read() returns for a regular, decodable file
ReadText(file) == [text |-> TranslateNewlines(file.bytes), code |-> file.code]

\* hashlib.sha256(source.encode("utf-8")).hexdigest(), digest taken injective
SourceHash(source) == <<"sha256", source.text, source.code>>

(***************************************************************************)
(* Command lines.  config_arg is what follows --config: absent, malformed  *)
(* JSON, or a JSON value (an object with some of the keys, or an array).   *)
(***************************************************************************)
Paths == {"a", "b"}

DefaultConfig == [type |-> "object", repoName |-> "", packagePath |-> ""]

ConfigArgs ==
    { [given |-> FALSE, valid |-> TRUE, value |-> DefaultConfig],
      [given |-> TRUE, valid |-> FALSE, value |-> DefaultConfig],
      [given |-> TRUE, valid |-> TRUE,
       value |-> [type |-> "array", repoName |-> "", packagePath |-> ""]],
      [given |-> TRUE, valid |-> TRUE,
       value |-> [type |-> "object", repoName |-> "r", packagePath |-> "p"]] }

NoPathArgv == [has_path |-> FALSE, path |-> "a", config_arg |-> CHOOSE c \in ConfigArgs : ~c.given]

Argv(path, config_arg) == [has_path |-> TRUE, path |-> path, config_arg |-> config_arg]

\* config.get(key, "") on a dict
ConfigGet(cfg, key) == IF key = "repoName" THEN cfg.repoName ELSE cfg.packagePath

NoParser == [constructed |-> FALSE]

NoResult == [returned |-> FALSE]

NoLocals == [start_time |-> 0, source |-> [text |-> <<>>, code |-> FailCode],
             source_hash |-> None, tree |-> NoNode, warnings |-> <<>>]

InitCommon ==
    /\ clock = 0
    /\ accessed = {}
    /\ config = [i \in Inv |-> DefaultConfig]
    /\ locals = [i \in Inv |-> NoLocals]
    /\ parser = [i \in Inv |-> NoParser]
    /\ stack = [i \in Inv |-> <<>>]
    /\ result = [i \in Inv |-> NoResult]
    /\ exit_code = [i \in Inv |-> -1]
    /\ stdout = [i \in Inv |-> ""]
    /\ stderr = [i \in Inv |-> ""]

\* one process; every command line on small files, every program under the
\* default command line
SoloInputs ==
    {<<NoPathArgv, MissingFile>>}
    \cup {<<Argv("a", c), f>> : c \in ConfigArgs,
            f \in {MissingFile, UnreadableFile}
                  \cup {RegularFile(b, k) : b \in ByteSeqs, k \in SmallCodes}}
    \cup {<<Argv("a", c), RegularFile(<<>>, k)>> :
            c \in {d \in ConfigArgs : ~d.given}, k \in AllCodes}

Init ==
    /\ InitCommon
    /\ \E in \in SoloInputs :
          /\ argv = [i \in Inv |-> in[1]]
          /\ fs = [q \in Paths |-> IF q = "a" THEN in[2] ELSE MissingFile]
    /\ pc = [i \in Inv |-> IF i = 1 THEN "main" ELSE "idle"]

(***************************************************************************)
(* main and parse_python_file                                              *)
(***************************************************************************)
\* time passes, up to t; the wall clock does not run backwards here
TimePasses(t) == t \in clock..MaxClock /\ clock' = t

\* variant: a syntax failure reported like an IO failure, with an error field
SyntaxErrorResult_terminal(source_hash, filepath, parse_time_ms, warnings) ==
    [returned |-> TRUE, error |-> <<"Syntax error", "e">>, nodes |-> <<>>,
     edges |-> <<>>, externalRefs |-> <<>>, sourceFileHash |-> source_hash,
     filePath |-> filepath, parseTimeMs |-> parse_time_ms, warnings |-> warnings]

\* the result of the except SyntaxError clause
SyntaxErrorResult(source_hash, filepath, parse_time_ms, warnings) ==
    [returned |-> TRUE, error |-> None, nodes |-> <<>>, edges |-> <<>>,
     externalRefs |-> <<>>, sourceFileHash |-> source_hash, filePath |-> filepath,
     parseTimeMs |-> parse_time_ms, warnings |-> warnings]

\* the result after a completed traversal
SuccessResult(p, source_hash, filepath, parse_time_ms, warnings) ==
    [returned |-> TRUE, error |-> None, nodes |-> p.nodes, edges |-> p.edges,
     externalRefs |-> p.external_refs, sourceFileHash |-> source_hash,
     filePath |-> filepath, parseTimeMs |-> parse_time_ms,
     warnings |-> p.warnings \o warnings]

\* variant: the warning that mirrors the error is left out
ErrorResult_unmirrored(message, filepath) ==
    [returned |-> TRUE, error |-> message, nodes |-> <<>>, edges |-> <<>>,
     externalRefs |-> <<>>, sourceFileHash |-> None, filePath |-> filepath,
     parseTimeMs |-> 0, warnings |-> <<>>]

ErrorResult(message, filepath) ==
    [returned |-> TRUE, error |-> message, nodes |-> <<>>, edges |-> <<>>,
     externalRefs |-> <<>>, sourceFileHash |-> None, filePath |-> filepath,
     parseTimeMs |-> 0, warnings |-> <<message>>]

\* main, up to the call of parse_python_file: the argument count and json.loads
main_args(i) ==
    /\ pc[i] = "main"
    /\ IF ~argv[i].has_path
       THEN /\ stderr' = [stderr EXCEPT ![i] = "error_object"]
            /\ exit_code' = [exit_code EXCEPT ![i] = 1]
            /\ pc' = [pc EXCEPT ![i] = "exited"]
            /\ UNCHANGED config
       ELSE IF argv[i].config_arg.given /\ ~argv[i].config_arg.valid
       THEN /\ stderr' = [stderr EXCEPT ![i] = "error_object"]
            /\ exit_code' = [exit_code EXCEPT ![i] = 1]
            /\ pc' = [pc EXCEPT ![i] = "exited"]
            /\ UNCHANGED config
       ELSE /\ config' = [config EXCEPT ![i] =
                  IF argv[i].config_arg.given THEN argv[i].config_arg.value
                  ELSE DefaultConfig]
            /\ pc' = [pc EXCEPT ![i] = "ppf_start"]
            /\ UNCHANGED <<stderr, exit_code>>
    /\ UNCHANGED <<argv, fs, clock, accessed, locals, parser, stack, result, stdout>>

\* start_time = time.time(); warnings = []
ppf_start(i) ==
    /\ pc[i] = "ppf_start"
    /\ locals' = [locals EXCEPT ![i] = [NoLocals EXCEPT !.start_time = clock]]
    /\ pc' = [pc EXCEPT ![i] = "ppf_read"]
    /\ UNCHANGED <<argv, fs, clock, accessed, config, parser, stack, result,
                   exit_code, stdout, stderr>>

\* the try block around open / read, which takes time
ppf_read(i) ==
    /\ pc[i] = "ppf_read"
    /\ accessed' = accessed \cup {i}
    /\ \E t \in 0..MaxClock : TimePasses(t)
    /\ LET filepath == argv[i].path
           file == fs[filepath]
       IN IF file.type = "missing"
          THEN /\ result' = [result EXCEPT ![i] =
                     ErrorResult(<<"File not found", filepath>>, filepath)]
               /\ pc' = [pc EXCEPT ![i] = "returned"]
               /\ UNCHANGED locals
          ELSE IF file.type = "unreadable" \/ ~Decodable(file.bytes)
          THEN /\ result' = [result EXCEPT ![i] =
                     ErrorResult(<<"Error reading file", file.type>>, filepath)]
               /\ pc' = [pc EXCEPT ![i] = "returned"]
               /\ UNCHANGED locals
          ELSE /\ locals' = [locals EXCEPT ![i].source = ReadText(file)]
               /\ pc' = [pc EXCEPT ![i] = "ppf_hash"]
               /\ UNCHANGED result
    /\ UNCHANGED <<argv, fs, config, parser, stack, exit_code, stdout, stderr>>

ppf_hash(i) ==
    /\ pc[i] = "ppf_hash"
    /\ locals' = [locals EXCEPT ![i].source_hash = SourceHash(locals[i].source)]
    /\ pc' = [pc EXCEPT ![i] = "ppf_parse"]
    /\ UNCHANGED <<argv, fs, clock, accessed, config, parser, stack, result,
                   exit_code, stdout, stderr>>

\* ast.parse(source, filename=filepath) and its except SyntaxError clause
ppf_parse(i) ==
    /\ pc[i] = "ppf_parse"
    /\ LET code == locals[i].source.code
       IN CASE code.outcome = "ok" ->
                 /\ locals' = [locals EXCEPT ![i].tree = code.tree]
                 /\ pc' = [pc EXCEPT ![i] = "ppf_init"]
                 /\ UNCHANGED <<result, clock>>
            [] code.outcome = "syntax" ->
                 \E t \in 0..MaxClock :
                    /\ TimePasses(t)
                    /\ LET warnings == Append(locals[i].warnings, <<"Syntax error", "e">>)
                       IN /\ locals' = [locals EXCEPT ![i].warnings = warnings]
                          /\ result' = [result EXCEPT ![i] =
                                SyntaxErrorResult(locals[i].source_hash, argv[i].path,
                                    (t - locals[i].start_time) * 1000, warnings)]
                    /\ pc' = [pc EXCEPT ![i] = "returned"]
            [] OTHER ->
                 /\ pc' = [pc EXCEPT ![i] = "raised"]
                 /\ UNCHANGED <<locals, result, clock>>
    /\ UNCHANGED <<argv, fs, accessed, config, parser, stack, exit_code, stdout, stderr>>

\* variant: nodes is one list of the class, which every parser appends to
ppf_init_shared(i) ==
    /\ pc[i] = "ppf_init"
    /\ config[i].type = "object"
    /\ parser' = [parser EXCEPT ![i] =
          [constructed |-> TRUE,
           filepath |-> argv[i].path,
           repo_name |-> ConfigGet(config[i], "repoName"),
           package_path |-> ConfigGet(config[i], "packagePath"),
           nodes |-> IF \E j \in Inv \ {i} : parser[j].constructed
                     THEN parser[CHOOSE j \in Inv \ {i} : parser[j].constructed].nodes
                     ELSE <<>>,
           edges |-> <<>>, external_refs |-> <<>>, warnings |-> <<>>,
           scope_stack |-> <<>>,
           current_class_name |-> "",
           current_class_entity_id |-> None,
           current_function_entity_id |-> None]]
    /\ pc' = [pc EXCEPT ![i] = "ppf_visit"]
    /\ UNCHANGED <<argv, fs, clock, accessed, config, locals, stack, result,
                   exit_code, stdout, stderr>>

\* DevACPythonParser.__init__: config.get exists on a dict only
ppf_init(i) ==
    /\ pc[i] = "ppf_init"
    /\ IF config[i].type # "object"
       THEN /\ pc' = [pc EXCEPT ![i] = "raised"]
            /\ UNCHANGED parser
       ELSE /\ parser' = [parser EXCEPT ![i] =
                  [constructed |-> TRUE,
                   filepath |-> argv[i].path,
                   repo_name |-> ConfigGet(config[i], "repoName"),
                   package_path |-> ConfigGet(config[i], "packagePath"),
                   nodes |-> <<>>, edges |-> <<>>, external_refs |-> <<>>,
                   warnings |-> <<>>,
                   scope_stack |-> <<>>,
                   current_class_name |-> "",   \* None: no class is named ""
                   current_class_entity_id |-> None,
                   current_function_entity_id |-> None]]
            /\ pc' = [pc EXCEPT ![i] = "ppf_visit"]
    /\ UNCHANGED <<argv, fs, clock, accessed, config, locals, stack, result,
                   exit_code, stdout, stderr>>

(***************************************************************************)
(* The traversal.  A frame is one active visit(node) call: the children    *)
(* generic_visit has still to visit, and the locals in which visit_ClassDef*)
(* and _visit_function keep the context they will restore and the id of    *)
(* the node they created.                                                  *)
(***************************************************************************)
Frame(n, prev_class_name, prev_class_entity_id, prev_function_entity_id) ==
    [kind |-> n.kind, node |-> n, todo |-> Children(n), entity_id |-> None,
     prev_class_name |-> prev_class_name,
     prev_class_entity_id |-> prev_class_entity_id,
     prev_function_entity_id |-> prev_function_entity_id]

PlainFrame(n) == Frame(n, "", None, None)

Top(i) == stack[i][Len(stack[i])]

\* the node the innermost generic_visit loop visits next
NextChild(i) == Head(Top(i).todo)

\* the innermost loop has moved past its current child
Advanced(st) == [st EXCEPT ![Len(st)].todo = Tail(@)]

\* a further visit call fits under the interpreter's recursion limit
Visiting(i, kinds) ==
    /\ pc[i] = "visiting"
    /\ Top(i).todo # <<>>
    /\ Len(stack[i]) < RecursionLimit
    /\ NextChild(i).kind \in kinds

TraversalUnchanged ==
    UNCHANGED <<argv, fs, clock, accessed, config, locals, result, exit_code,
                stdout, stderr>>

\* parser.visit(tree): visit_Module is generic_visit on the root
visit_Module(i) ==
    /\ pc[i] = "ppf_visit"
    /\ stack' = [stack EXCEPT ![i] = <<PlainFrame(locals[i].tree)>>]
    /\ pc' = [pc EXCEPT ![i] = "visiting"]
    /\ UNCHANGED parser
    /\ TraversalUnchanged

RECURSIVE UnparseAll(_)
UnparseAll(es) ==
    IF es = <<>> THEN <<>> ELSE <<Unparse(Head(es))>> \o UnparseAll(Tail(es))

\* variant: the base is named within the scope of the declaration
RECURSIVE AddExtends_scoped(_, _, _)
AddExtends_scoped(p, entity_id, bases) ==
    IF bases = <<>> THEN p
    ELSE LET base_name == Unparse(Head(bases))
             base_entity_id ==
                 _generate_entity_id(p, "class", p.scope_stack \o base_name)
         IN AddExtends_scoped(
              _add_edge(p, "EXTENDS", entity_id, base_entity_id,
                        [NoEdgeExtra EXCEPT !.target_name = base_name]),
              entity_id, Tail(bases))

\* the loop over node.bases
RECURSIVE AddExtends(_, _, _)
AddExtends(p, entity_id, bases) ==
    IF bases = <<>> THEN p
    ELSE LET base_name == Unparse(Head(bases))
             base_entity_id == _generate_entity_id(p, "class", base_name)
         IN AddExtends(
              _add_edge(p, "EXTENDS", entity_id, base_entity_id,
                        [NoEdgeExtra EXCEPT !.target_name = base_name]),
              entity_id, Tail(bases))

\* visit_ClassDef up to its generic_visit call
visit_ClassDef(i) ==
    /\ Visiting(i, {"ClassDef"})
    /\ LET node == NextChild(i)
           p == parser[i]
           entity_id == NodeId(p, "class", node.name)
           p1 == _add_node(p, "class", node.name, p.current_class_entity_id,
                           [NoExtra EXCEPT !.decorators = UnparseAll(node.decorator_list)])
           p2 == AddExtends(p1, entity_id, node.bases)
       IN /\ parser' = [parser EXCEPT ![i] =
                [p2 EXCEPT !.current_class_name = node.name,
                           !.current_class_entity_id = entity_id,
                           !.scope_stack = Append(@, node.name)]]
          /\ stack' = [stack EXCEPT ![i] =
                Append(Advanced(@),
                       [Frame(node, p.current_class_name, p.current_class_entity_id, None)
                          EXCEPT !.entity_id = entity_id])]
    /\ UNCHANGED pc
    /\ TraversalUnchanged

\* variant: the class context is not put back
visit_ClassDef_exit_keep(i) ==
    /\ pc[i] = "visiting"
    /\ Top(i).todo = <<>>
    /\ Top(i).kind = "ClassDef"
    /\ parser' = [parser EXCEPT ![i] =
          [@ EXCEPT !.scope_stack = SubSeq(@, 1, Len(@) - 1)]]
    /\ stack' = [stack EXCEPT ![i] = SubSeq(@, 1, Len(@) - 1)]
    /\ UNCHANGED pc
    /\ TraversalUnchanged

\* visit_ClassDef after its generic_visit call returned
visit_ClassDef_exit(i) ==
    /\ pc[i] = "visiting"
    /\ Top(i).todo = <<>>
    /\ Top(i).kind = "ClassDef"
    /\ parser' = [parser EXCEPT ![i] =
          [@ EXCEPT !.scope_stack = SubSeq(@, 1, Len(@) - 1),
                    !.current_class_name = Top(i).prev_class_name,
                    !.current_class_entity_id = Top(i).prev_class_entity_id]]
    /\ stack' = [stack EXCEPT ![i] = SubSeq(@, 1, Len(@) - 1)]
    /\ UNCHANGED pc
    /\ TraversalUnchanged

\* the regular args that are not named self / cls
RECURSIVE SkipSelfCls(_)
SkipSelfCls(args) ==
    IF args = <<>> THEN <<>>
    ELSE IF Head(args).arg \in {"self", "cls"} THEN SkipSelfCls(Tail(args))
         ELSE <<Head(args)>> \o SkipSelfCls(Tail(args))

\* all_args of _process_function_args
AllArgs(args) ==
    SkipSelfCls(args.args) \o Opt(args.vararg) \o args.kwonlyargs \o Opt(args.kwarg)

\* the loop over all_args
RECURSIVE AddParams(_, _, _)
AddParams(p, all_args, func_entity_id) ==
    IF all_args = <<>> THEN p
    ELSE LET a == Head(all_args)
             param_entity_id == NodeId(p, "parameter", a.arg)
             p1 == _add_node(p, "parameter", a.arg, None,
                     [NoExtra EXCEPT !.type_annotation = _get_type_annotation(a.annotation)])
         IN AddParams(_add_edge(p1, "PARAMETER_OF", param_entity_id, func_entity_id,
                                NoEdgeExtra),
                      Tail(all_args), func_entity_id)

\* variant: the parameters are named in the scope around the function
_process_function_args_outer_scope(p, args, func_entity_id) ==
    [AddParams([p EXCEPT !.scope_stack = SubSeq(@, 1, Len(@) - 1)],
               AllArgs(args), func_entity_id)
       EXCEPT !.scope_stack = p.scope_stack]

_process_function_args(p, args, func_entity_id) ==
    AddParams(p, AllArgs(args), func_entity_id)

\* the flags and properties _visit_function gives the node
FunctionExtra(node, is_async) ==
    [flags |-> (IF is_async THEN {"is_async"} ELSE {})
               \cup (IF _has_decorator(node.decorator_list, "staticmethod")
                     THEN {"is_static"} ELSE {})
               \cup (IF _has_decorator(node.decorator_list, "classmethod")
                     THEN {"is_class_method"} ELSE {})
               \cup (IF _has_decorator(node.decorator_list, "property")
                     THEN {"is_property"} ELSE {})
               \cup (IF _is_generator(node) THEN {"is_generator"} ELSE {}),
     type_annotation |-> None,
     return_type |-> _get_type_annotation(node.returns),
     decorators |-> UnparseAll(node.decorator_list)]

\* visit_FunctionDef / visit_AsyncFunctionDef: _visit_function up to its
\* generic_visit call
_visit_function(i) ==
    /\ Visiting(i, {"FunctionDef", "AsyncFunctionDef"})
    /\ LET node == NextChild(i)
           p == parser[i]
           is_method == p.current_class_entity_id # None
           kind == IF is_method THEN "method" ELSE "function"
           parent_id == IF is_method THEN p.current_class_entity_id ELSE None
           entity_id == NodeId(p, kind, node.name)
           p1 == _add_node(p, kind, node.name, parent_id,
                           FunctionExtra(node, node.kind = "AsyncFunctionDef"))
           p2 == [p1 EXCEPT !.current_function_entity_id = entity_id,
                            !.scope_stack = Append(@, node.name)]
       IN /\ parser' = [parser EXCEPT ![i] =
                _process_function_args(p2, node.args, entity_id)]
          /\ stack' = [stack EXCEPT ![i] =
                Append(Advanced(@),
                       [Frame(node, "", None, p.current_function_entity_id)
                          EXCEPT !.entity_id = entity_id])]
    /\ UNCHANGED pc
    /\ TraversalUnchanged

\* variant: the function context is not put back
_visit_function_exit_keep(i) ==
    /\ pc[i] = "visiting"
    /\ Top(i).todo = <<>>
    /\ Top(i).kind \in {"FunctionDef", "AsyncFunctionDef"}
    /\ parser' = [parser EXCEPT ![i] =
          [@ EXCEPT !.scope_stack = SubSeq(@, 1, Len(@) - 1)]]
    /\ stack' = [stack EXCEPT ![i] = SubSeq(@, 1, Len(@) - 1)]
    /\ UNCHANGED pc
    /\ TraversalUnchanged

\* _visit_function after its generic_visit call returned
_visit_function_exit(i) ==
    /\ pc[i] = "visiting"
    /\ Top(i).todo = <<>>
    /\ Top(i).kind \in {"FunctionDef", "AsyncFunctionDef"}
    /\ parser' = [parser EXCEPT ![i] =
          [@ EXCEPT !.scope_stack = SubSeq(@, 1, Len(@) - 1),
                    !.current_function_entity_id = Top(i).prev_function_entity_id]]
    /\ stack' = [stack EXCEPT ![i] = SubSeq(@, 1, Len(@) - 1)]
    /\ UNCHANGED pc
    /\ TraversalUnchanged

\* self.current_function_entity_id or self.current_class_entity_id or "",
\* replaced by the module-level id when blank
ImportSource(p) ==
    LET source_entity_id ==
          IF p.current_function_entity_id # None THEN p.current_function_entity_id
          ELSE IF p.current_class_entity_id # None THEN p.current_class_entity_id
          ELSE None
    IN IF source_entity_id = None THEN ModuleId(p) ELSE source_entity_id

RECURSIVE AddImports(_, _, _)
AddImports(p, names, source_entity_id) ==
    IF names = <<>> THEN p
    ELSE AddImports(
           _add_external_ref(p, Head(names).name, <<"*">>, source_entity_id,
                             Head(names).asname),
           Tail(names), source_entity_id)

\* visit_Import does not descend
visit_Import(i) ==
    /\ Visiting(i, {"Import"})
    /\ parser' = [parser EXCEPT ![i] =
          AddImports(@, NextChild(i).names, ImportSource(@))]
    /\ stack' = [stack EXCEPT ![i] = Advanced(@)]
    /\ UNCHANGED pc
    /\ TraversalUnchanged

\* "." * n
RECURSIVE Dots(_)
Dots(n) == IF n = 0 THEN <<>> ELSE <<".">> \o Dots(n - 1)

RECURSIVE AddFromImports(_, _, _, _)
AddFromImports(p, names, module, source_entity_id) ==
    IF names = <<>> THEN p
    ELSE AddFromImports(
           _add_external_ref(p, module, Head(names).name, source_entity_id,
                             Head(names).asname),
           Tail(names), module, source_entity_id)

\* visit_ImportFrom does not descend
visit_ImportFrom(i) ==
    /\ Visiting(i, {"ImportFrom"})
    /\ LET node == NextChild(i)
           module == IF node.level > 0 THEN Dots(node.level) \o node.module
                     ELSE node.module
       IN parser' = [parser EXCEPT ![i] =
             AddFromImports(@, node.names, module, ImportSource(@))]
    /\ stack' = [stack EXCEPT ![i] = Advanced(@)]
    /\ UNCHANGED pc
    /\ TraversalUnchanged

\* str.isupper() on the identifiers of the input programs
IsUpper(id) == id \in {"X", "MAX"}

\* the loop over node.targets
RECURSIVE AddTargets(_, _)
AddTargets(p, targets) ==
    IF targets = <<>> THEN p
    ELSE LET target == Head(targets)
         IN IF target.kind = "Name"
            THEN AddTargets(
                   _add_node(p, IF IsUpper(target.id) THEN "constant" ELSE "variable",
                             target.id, p.current_class_entity_id, NoExtra),
                   Tail(targets))
            ELSE AddTargets(p, Tail(targets))

\* variant: targets are recorded inside function bodies too
visit_Assign_anywhere(i) ==
    /\ Visiting(i, {"Assign"})
    /\ parser' = [parser EXCEPT ![i] = AddTargets(@, NextChild(i).targets)]
    /\ stack' = [stack EXCEPT ![i] = Append(Advanced(@), PlainFrame(NextChild(i)))]
    /\ UNCHANGED pc
    /\ TraversalUnchanged

visit_Assign(i) ==
    /\ Visiting(i, {"Assign"})
    /\ LET node == NextChild(i)
           p == parser[i]
       IN /\ parser' = [parser EXCEPT ![i] =
                IF p.current_function_entity_id = None
                THEN AddTargets(p, node.targets) ELSE p]
          /\ stack' = [stack EXCEPT ![i] = Append(Advanced(@), PlainFrame(node))]
    /\ UNCHANGED pc
    /\ TraversalUnchanged

PrimitiveTypeNames ==
    {"str", "int", "float", "bool", "bytes", "list", "dict", "set", "tuple"}

visit_AnnAssign(i) ==
    /\ Visiting(i, {"AnnAssign"})
    /\ LET node == NextChild(i)
           p == parser[i]
           is_type_alias == /\ node.value # NoNode
                            /\ node.value.kind = "Name"
                            /\ node.value.id \in PrimitiveTypeNames
           kind == IF is_type_alias THEN "type"
                   ELSE IF IsUpper(node.target.id) THEN "constant" ELSE "variable"
       IN /\ parser' = [parser EXCEPT ![i] =
                IF p.current_function_entity_id = None /\ node.target.kind = "Name"
                THEN _add_node(p, kind, node.target.id, p.current_class_entity_id,
                       [NoExtra EXCEPT !.type_annotation =
                            _get_type_annotation(node.annotation)])
                ELSE p]
          /\ stack' = [stack EXCEPT ![i] = Append(Advanced(@), PlainFrame(node))]
    /\ UNCHANGED pc
    /\ TraversalUnchanged

\* f"unresolved:{callee_name}"
UnresolvedId(callee_name) == <<"unresolved", callee_name>>

visit_Call(i) ==
    /\ Visiting(i, {"Call"})
    /\ LET node == NextChild(i)
           p == parser[i]
           source_entity_id == IF p.current_function_entity_id # None
                               THEN p.current_function_entity_id ELSE ModuleId(p)
           callee_name == _extract_callee_name(node.func)
       IN /\ parser' = [parser EXCEPT ![i] =
                IF callee_name # None
                THEN _add_edge(p, "CALLS", source_entity_id, UnresolvedId(callee_name),
                        [NoEdgeExtra EXCEPT !.callee = callee_name,
                                            !.argument_count = Len(node.args)])
                ELSE p]
          /\ stack' = [stack EXCEPT ![i] = Append(Advanced(@), PlainFrame(node))]
    /\ UNCHANGED pc
    /\ TraversalUnchanged

\* the node kinds DevACPythonParser has a visit_ method for
HandledKinds ==
    {"Module", "ClassDef", "FunctionDef", "AsyncFunctionDef", "Import", "ImportFrom",
     "Assign", "AnnAssign", "Call"}

AllKinds ==
    HandledKinds \cup {"None", "Name", "Constant", "Attribute", "Subscript", "BinOp",
                       "Yield", "Expr", "Pass", "alias", "arg", "arguments"}

\* NodeVisitor.generic_visit on a node without a visit_ method; a node
\* without children is entered and left in the same step
generic_visit(i) ==
    /\ Visiting(i, AllKinds \ HandledKinds)
    /\ stack' = [stack EXCEPT ![i] =
          IF Children(NextChild(i)) = <<>> THEN Advanced(@)
          ELSE Append(Advanced(@), PlainFrame(NextChild(i)))]
    /\ UNCHANGED <<pc, parser>>
    /\ TraversalUnchanged

\* a generic_visit loop ran out of children: the visit call returns, the
\* outermost one into parse_python_file
generic_visit_exit(i) ==
    /\ pc[i] = "visiting"
    /\ Top(i).todo = <<>>
    /\ Top(i).kind \notin {"ClassDef", "FunctionDef", "AsyncFunctionDef"}
    /\ stack' = [stack EXCEPT ![i] = SubSeq(@, 1, Len(@) - 1)]
    /\ pc' = [pc EXCEPT ![i] = IF Len(stack[i]) = 1 THEN "ppf_finish" ELSE "visiting"]
    /\ UNCHANGED parser
    /\ TraversalUnchanged

\* the visit call of the next child does not fit: RecursionError
RecursionError(i) ==
    /\ pc[i] = "visiting"
    /\ Top(i).todo # <<>>
    /\ Len(stack[i]) >= RecursionLimit
    /\ pc' = [pc EXCEPT ![i] = "unwinding"]
    /\ UNCHANGED <<parser, stack>>
    /\ TraversalUnchanged

\* the exception leaves one visit call; no handler, no finally clause
unwind(i) ==
    /\ pc[i] = "unwinding"
    /\ stack' = [stack EXCEPT ![i] = SubSeq(@, 1, Len(@) - 1)]
    /\ pc' = [pc EXCEPT ![i] = IF Len(stack[i]) = 1 THEN "raised" ELSE "unwinding"]
    /\ UNCHANGED parser
    /\ TraversalUnchanged

\* parse_python_file after parser.visit(tree)
ppf_finish(i) ==
    /\ pc[i] = "ppf_finish"
    /\ \E t \in 0..MaxClock :
          /\ TimePasses(t)
          /\ result' = [result EXCEPT ![i] =
                SuccessResult(parser[i], locals[i].source_hash, argv[i].path,
                              (t - locals[i].start_time) * 1000, locals[i].warnings)]
    /\ pc' = [pc EXCEPT ![i] = "returned"]
    /\ UNCHANGED <<argv, fs, accessed, config, locals, parser, stack, exit_code,
                   stdout, stderr>>

\* main after parse_python_file returned
main_report(i) ==
    /\ pc[i] = "returned"
    /\ IF result[i].error # None /\ result[i].nodes = <<>>
       THEN /\ stderr' = [stderr EXCEPT ![i] = "error_object"]
            /\ exit_code' = [exit_code EXCEPT ![i] = 1]
            /\ UNCHANGED stdout
       ELSE /\ stdout' = [stdout EXCEPT ![i] = "result"]
            /\ exit_code' = [exit_code EXCEPT ![i] = 0]
            /\ UNCHANGED stderr
    /\ pc' = [pc EXCEPT ![i] = "exited"]
    /\ UNCHANGED <<argv, fs, clock, accessed, config, locals, parser, stack, result>>

\* an exception nothing in parse_python_file or main catches ends the
\* process: traceback on stderr, exit status 1
uncaught_exception(i) ==
    /\ pc[i] = "raised"
    /\ stderr' = [stderr EXCEPT ![i] = "traceback"]
    /\ exit_code' = [exit_code EXCEPT ![i] = 1]
    /\ pc' = [pc EXCEPT ![i] = "crashed"]
    /\ UNCHANGED <<argv, fs, clock, accessed, config, locals, parser, stack, result,
                   stdout>>

Step(i) ==
    \/ main_args(i)
    \/ ppf_start(i)
    \/ ppf_read(i)
    \/ ppf_hash(i)
    \/ ppf_parse(i)
    \/ ppf_init(i)
    \/ visit_Module(i)
    \/ visit_ClassDef(i)
    \/ visit_ClassDef_exit(i)
    \/ _visit_function(i)
    \/ _visit_function_exit(i)
    \/ visit_Import(i)
    \/ visit_ImportFrom(i)
    \/ visit_Assign(i)
    \/ visit_AnnAssign(i)
    \/ visit_Call(i)
    \/ generic_visit(i)
    \/ generic_visit_exit(i)
    \/ RecursionError(i)
    \/ unwind(i)
    \/ ppf_finish(i)
    \/ main_report(i)
    \/ uncaught_exception(i)

Next == \E i \in Inv : Step(i)

Spec == Init /\ [][Next]_vars

(***************************************************************************)
(* Two invocations side by side, their steps interleaved, on small files.  *)
(***************************************************************************)
PairProgram ==
    Module(<<ImportFrom(<<>>, 2, <<alias(<<"n">>, None)>>),
             ClassDef("A", <<Name("B")>>,
               <<FunctionDef("f", SelfX, <<CallFoo>>, <<>>, NoNode)>>, <<>>),
             AnnAssign(Name("T"), Name("type"), Name("int"))>>)

PairDeepProgram ==
    Module(<<ImportOs, FunctionDef("f", NoArgs, <<FunctionDef("g", NoArgs,
               <<DeepExpr>>, <<>>, NoNode)>>, <<>>, NoNode)>>)

PairFiles ==
    { MissingFile,
      RegularFile(<<"a", "CR", "LF">>, TinyCode),
      RegularFile(<<"a", "LF">>, TinyCode),
      RegularFile(<<>>, SyntaxErrorCode),
      RegularFile(<<>>, OkCode(PairProgram)),
      RegularFile(<<>>, OkCode(PairDeepProgram)) }

InitPair ==
    /\ InitCommon
    /\ \E q \in Paths :
          argv = [i \in Inv |->
                    Argv(IF i = 1 THEN "a" ELSE q, CHOOSE c \in ConfigArgs : ~c.given)]
    /\ fs \in [Paths -> PairFiles]
    /\ pc = [i \in Inv |-> "main"]

SpecPair == InitPair /\ [][Next]_vars

(***************************************************************************)
(* One invocation by itself, as the recursion the code is written as:      *)
(* parser.visit(tree) as a function from the parser before the call to the *)
(* parser after it, ok being FALSE when a RecursionError ended it.         *)
(***************************************************************************)
\* DevACPythonParser(filepath, source, config)
NewParser(filepath, cfg) ==
    [constructed |-> TRUE, filepath |-> filepath,
     repo_name |-> ConfigGet(cfg, "repoName"),
     package_path |-> ConfigGet(cfg, "packagePath"),
     nodes |-> <<>>, edges |-> <<>>, external_refs |-> <<>>, warnings |-> <<>>,
     scope_stack |-> <<>>, current_class_name |-> "",
     current_class_entity_id |-> None, current_function_entity_id |-> None]

RECURSIVE visit(_, _, _)
RECURSIVE generic_visit_children(_, _, _)
\* the loop of NodeVisitor.generic_visit, under depth active visit calls
generic_visit_children(r, children, depth) ==
    IF ~r.ok \/ children = <<>> THEN r
    ELSE generic_visit_children(visit(r.p, Head(children), depth), Tail(children), depth)

\* NodeVisitor.visit(node), called under depth active visit calls
visit(p, node, depth) ==
    IF depth >= RecursionLimit THEN [p |-> p, ok |-> FALSE]
    ELSE CASE node.kind = "ClassDef" ->
                LET entity_id == NodeId(p, "class", node.name)
                    p1 == _add_node(p, "class", node.name, p.current_class_entity_id,
                            [NoExtra EXCEPT !.decorators = UnparseAll(node.decorator_list)])
                    p2 == [AddExtends(p1, entity_id, node.bases) EXCEPT
                             !.current_class_name = node.name,
                             !.current_class_entity_id = entity_id,
                             !.scope_stack = Append(@, node.name)]
                    r == generic_visit_children([p |-> p2, ok |-> TRUE],
                                                Children(node), depth + 1)
                IN [r EXCEPT !.p = [@ EXCEPT
                      !.scope_stack = SubSeq(@, 1, Len(@) - 1),
                      !.current_class_name = p.current_class_name,
                      !.current_class_entity_id = p.current_class_entity_id]]
           [] node.kind \in {"FunctionDef", "AsyncFunctionDef"} ->
                LET is_method == p.current_class_entity_id # None
                    kind == IF is_method THEN "method" ELSE "function"
                    entity_id == NodeId(p, kind, node.name)
                    p1 == _add_node(p, kind, node.name,
                            IF is_method THEN p.current_class_entity_id ELSE None,
                            FunctionExtra(node, node.kind = "AsyncFunctionDef"))
                    p2 == [p1 EXCEPT !.current_function_entity_id = entity_id,
                                     !.scope_stack = Append(@, node.name)]
                    r == generic_visit_children(
                           [p |-> _process_function_args(p2, node.args, entity_id),
                            ok |-> TRUE],
                           Children(node), depth + 1)
                IN [r EXCEPT !.p = [@ EXCEPT
                      !.scope_stack = SubSeq(@, 1, Len(@) - 1),
                      !.current_function_entity_id = p.current_function_entity_id]]
           [] node.kind = "Import" ->
                [p |-> AddImports(p, node.names, ImportSource(p)), ok |-> TRUE]
           [] node.kind = "ImportFrom" ->
                [p |-> AddFromImports(p, node.names,
                          IF node.level > 0 THEN Dots(node.level) \o node.module
                          ELSE node.module,
                          ImportSource(p)),
                 ok |-> TRUE]
           [] node.kind = "Assign" ->
                generic_visit_children(
                  [p |-> IF p.current_function_entity_id = None
                         THEN AddTargets(p, node.targets) ELSE p,
                   ok |-> TRUE],
                  Children(node), depth + 1)
           [] node.kind = "AnnAssign" ->
                LET kind == IF /\ node.value # NoNode
                               /\ node.value.kind = "Name"
                               /\ node.value.id \in PrimitiveTypeNames
                            THEN "type"
                            ELSE IF IsUpper(node.target.id) THEN "constant"
                            ELSE "variable"
                IN generic_visit_children(
                     [p |-> IF p.current_function_entity_id = None
                               /\ node.target.kind = "Name"
                            THEN _add_node(p, kind, node.target.id,
                                   p.current_class_entity_id,
                                   [NoExtra EXCEPT !.type_annotation =
                                        _get_type_annotation(node.annotation)])
                            ELSE p,
                      ok |-> TRUE],
                     Children(node), depth + 1)
           [] node.kind = "Call" ->
                LET callee_name == _extract_callee_name(node.func)
                IN generic_visit_children(
                     [p |-> IF callee_name # None
                            THEN _add_edge(p, "CALLS",
                                   IF p.current_function_entity_id # None
                                   THEN p.current_function_entity_id ELSE ModuleId(p),
                                   UnresolvedId(callee_name),
                                   [NoEdgeExtra EXCEPT
                                      !.callee = callee_name,
                                      !.argument_count = Len(node.args)])
                            ELSE p,
                      ok |-> TRUE],
                     Children(node), depth + 1)
           [] OTHER ->
                generic_visit_children([p |-> p, ok |-> TRUE], Children(node), depth + 1)

\* what parse_python_file(filepath, cfg) returns when nothing else runs,
\* its parseTimeMs put to 0; NoResult when it raises
parse_python_file(filepath, cfg) ==
    LET file == fs[filepath]
        source == ReadText(file)
    IN IF file.type = "missing"
       THEN ErrorResult(<<"File not found", filepath>>, filepath)
       ELSE IF file.type = "unreadable" \/ ~Decodable(file.bytes)
       THEN ErrorResult(<<"Error reading file", file.type>>, filepath)
       ELSE IF source.code.outcome = "syntax"
       THEN SyntaxErrorResult(SourceHash(source), filepath, 0,
                              <<<<"Syntax error", "e">>>>)
       ELSE IF source.code.outcome # "ok" \/ cfg.type # "object"
       THEN NoResult
       ELSE LET r == visit(NewParser(filepath, cfg), source.code.tree, 0)
            IN IF r.ok
               THEN SuccessResult(r.p, SourceHash(source), filepath, 0, <<>>)
               ELSE NoResult

(***************************************************************************)
(* Properties                                                              *)
(***************************************************************************)
ScopeKinds == {"ClassDef", "FunctionDef", "AsyncFunctionDef"}

\* the file the invocation names; files do not change during a run
FileOf(i) == fs[argv[i].path]

Readable(file) == file.type = "regular" /\ Decodable(file.bytes)

\* positions of the nodes / edges the step appends for invocation i
NewNodes(i) ==
    IF parser[i].constructed /\ parser'[i].constructed
    THEN (Len(parser[i].nodes) + 1)..Len(parser'[i].nodes) ELSE {}

NewEdges(i) ==
    IF parser[i].constructed /\ parser'[i].constructed
    THEN (Len(parser[i].edges) + 1)..Len(parser'[i].edges) ELSE {}

NewContains(i) == {k \in NewEdges(i) : parser'[i].edges[k].edge_type = "CONTAINS"}

\* the contexts active when the step creates node k: the class context, and
\* the function context, which for a parameter is the function just entered
ActiveContexts(i, k) ==
    LET fn == IF parser'[i].nodes[k].kind = "parameter"
              THEN parser'[i].current_function_entity_id
              ELSE parser[i].current_function_entity_id
    IN {c \in {parser[i].current_class_entity_id, fn} : c # None}

\* C1 as stated: every node created while a class context or a function
\* context is active gets exactly one CONTAINS edge, whose source is the id
\* of that context; a node created with no active context gets none.
C1_ContainsFromAnyContext ==
    [][\A i \in Inv : \A k \in NewNodes(i) :
          LET id == parser'[i].nodes[k].entity_id
              same == {m \in NewNodes(i) : parser'[i].nodes[m].entity_id = id}
              into == {e \in NewContains(i) : parser'[i].edges[e].target_entity_id = id}
          IN IF ActiveContexts(i, k) # {}
             THEN /\ Cardinality(into) = Cardinality(same)
                  /\ \A e \in into :
                        parser'[i].edges[e].source_entity_id \in ActiveContexts(i, k)
             ELSE into = {}]_vars

\* C1 (amended): a node other than a parameter that is created while a class
\* context is active gets exactly one CONTAINS edge, from the current class
\* context; a parameter, and any node created while no class context is
\* active (a function context or none), gets no CONTAINS edge.
C1_ContainsFromClassContext ==
    [][\A i \in Inv :
          /\ \A e \in NewContains(i) :
                /\ parser[i].current_class_entity_id # None
                /\ parser'[i].edges[e].source_entity_id = parser[i].current_class_entity_id
                /\ \E k \in NewNodes(i) :
                      parser'[i].nodes[k].entity_id = parser'[i].edges[e].target_entity_id
          /\ \A k \in NewNodes(i) :
                LET id == parser'[i].nodes[k].entity_id
                    same == {m \in NewNodes(i) :
                               /\ parser'[i].nodes[m].entity_id = id
                               /\ parser'[i].nodes[m].kind # "parameter"}
                    into == {e \in NewContains(i) :
                               parser'[i].edges[e].target_entity_id = id}
                IN Cardinality(into) =
                     IF parser[i].current_class_entity_id # None
                     THEN Cardinality(same) ELSE 0]_vars

\* C1 witness: a traversal that has created a node inside a class (with its
\* CONTAINS edge), a parameter, and a declaration nested in a function only
C1_Witness ==
    \E i \in Inv :
        /\ parser[i].constructed
        /\ \E e \in 1..Len(parser[i].edges) : parser[i].edges[e].edge_type = "CONTAINS"
        /\ \E k \in 1..Len(parser[i].nodes) : parser[i].nodes[k].kind = "parameter"
        /\ \E k \in 1..Len(parser[i].nodes) :
              /\ parser[i].nodes[k].kind \in {"function", "class"}
              /\ Len(parser[i].nodes[k].qualified_name) > 1
              /\ \A e \in 1..Len(parser[i].edges) :
                    parser[i].edges[e].edge_type = "CONTAINS" =>
                    parser[i].edges[e].target_entity_id # parser[i].nodes[k].entity_id

\* the explicit "unresolved:" tag
IsUnresolvedTagged(id) == id # None /\ id[1] = "unresolved"

\* C2 as stated: in the result of a successful traversal every edge endpoint
\* is non-blank and is the id of a node of the result, the module-level id,
\* or an id tagged "unresolved:".
C2_EndpointsKnownOrTagged ==
    \A i \in Inv :
        (result[i].returned /\ parser[i].constructed) =>
            LET ids == {result[i].nodes[k].entity_id : k \in 1..Len(result[i].nodes)}
                Known(id) == /\ id # None
                             /\ \/ IsUnresolvedTagged(id)
                                \/ id = ModuleId(parser[i])
                                \/ id \in ids
            IN \A e \in 1..Len(result[i].edges) :
                  /\ Known(result[i].edges[e].source_entity_id)
                  /\ Known(result[i].edges[e].target_entity_id)

\* C3 as stated: whenever the visit of a class or function subtree is left,
\* on any exit path, the scope stack is as deep as the scopes still open and
\* the current class / function is the one saved on entry.
C3_ContextRestoredOnExit ==
    [][\A i \in Inv :
          (pc[i] \in {"visiting", "unwinding"} /\ Len(stack'[i]) < Len(stack[i])
             /\ Top(i).kind \in ScopeKinds) =>
            /\ Len(parser'[i].scope_stack) =
                 Cardinality({k \in 1..Len(stack'[i]) : stack'[i][k].kind \in ScopeKinds})
            /\ Top(i).kind = "ClassDef" =>
                 /\ parser'[i].current_class_entity_id = Top(i).prev_class_entity_id
                 /\ parser'[i].current_class_name = Top(i).prev_class_name
            /\ Top(i).kind # "ClassDef" =>
                 parser'[i].current_function_entity_id = Top(i).prev_function_entity_id]_vars

\* C4 as stated: no failure escapes parse_python_file or main as an
\* uncaught exception.
C4_NoFailureEscapes ==
    \A i \in Inv : pc[i] \notin {"unwinding", "raised", "crashed"}

\* C5: when tree construction fails with a SyntaxError the invocation
\* returns (it never reaches the traversal) a result with empty collections,
\* no error field, a syntax-error warning and the digest of the text read;
\* main prints it and exits with code 0.
C5_SyntaxFailureResult ==
    \A i \in Inv :
        (Readable(FileOf(i)) /\ FileOf(i).code.outcome = "syntax") =>
            /\ pc[i] \in {"idle", "main", "ppf_start", "ppf_read", "ppf_hash",
                          "ppf_parse", "returned", "exited"}
            /\ result[i].returned =>
                 /\ result[i].nodes = <<>>
                 /\ result[i].edges = <<>>
                 /\ result[i].externalRefs = <<>>
                 /\ result[i].error = None
                 /\ result[i].warnings # <<>>
                 /\ \E w \in 1..Len(result[i].warnings) :
                       result[i].warnings[w][1] = "Syntax error"
                 /\ result[i].sourceFileHash = SourceHash(ReadText(FileOf(i)))
            /\ (pc[i] = "exited" /\ result[i].returned) =>
                 /\ exit_code[i] = 0
                 /\ stdout[i] = "result"
                 /\ stderr[i] = ""

\* C5 witness: a process has exited after a syntax failure
C5_Witness ==
    \E i \in Inv :
        /\ Readable(FileOf(i))
        /\ FileOf(i).code.outcome = "syntax"
        /\ result[i].returned
        /\ pc[i] = "exited"

\* C6: when the file cannot be read the invocation returns at once, no
\* digest computed and no tree built, a result with the error field set,
\* empty collections and the error text as its only warning; main exits
\* with code 1.
C6_IOFailureResult ==
    \A i \in Inv :
        (i \in accessed /\ ~Readable(FileOf(i))) =>
            /\ pc[i] \in {"returned", "exited"}
            /\ result[i].returned
            /\ result[i].error # None
            /\ result[i].error[1] = IF FileOf(i).type = "missing"
                                    THEN "File not found" ELSE "Error reading file"
            /\ result[i].nodes = <<>>
            /\ result[i].edges = <<>>
            /\ result[i].externalRefs = <<>>
            /\ result[i].warnings = <<result[i].error>>
            /\ result[i].sourceFileHash = None
            /\ locals[i].source_hash = None
            /\ locals[i].tree = NoNode
            /\ pc[i] = "exited" =>
                 /\ exit_code[i] = 1
                 /\ stderr[i] = "error_object"
                 /\ stdout[i] = ""

\* C6 witness: a process has exited after failing to decode or open a file
\* that exists
C6_Witness ==
    \E i \in Inv :
        /\ i \in accessed
        /\ FileOf(i).type # "missing"
        /\ ~Readable(FileOf(i))
        /\ pc[i] = "exited"

\* C7 as stated: on every path the returned parseTimeMs is the time elapsed
\* between the start of the invocation and the return, and is not negative.
C7_ParseTimeIsElapsed ==
    [][\A i \in Inv :
          (~result[i].returned /\ result'[i].returned) =>
             /\ result'[i].parseTimeMs = (clock' - locals[i].start_time) * 1000
             /\ result'[i].parseTimeMs >= 0]_vars

\* C8 as stated: a finished process has exit code 1 and an error object on
\* stderr exactly when the path is missing, the config JSON is malformed or
\* the file cannot be read, and exit code 0 with the result on stdout
\* otherwise; a malformed config is reported before the file is accessed.
C8_ExitCodes ==
    \A i \in Inv :
        pc[i] \in {"exited", "crashed"} =>
            LET bad_config == argv[i].config_arg.given /\ ~argv[i].config_arg.valid
                failure == \/ ~argv[i].has_path
                           \/ bad_config
                           \/ ~Readable(FileOf(i))
            IN /\ failure => (exit_code[i] = 1 /\ stderr[i] = "error_object")
               /\ ~failure => (exit_code[i] = 0 /\ stdout[i] = "result")
               /\ bad_config => i \notin accessed

\* C9 as stated: two readable files get the same sourceFileHash exactly when
\* their raw bytes are the same.
C9_HashOfRawBytes ==
    \A i, j \in Inv :
        (/\ result[i].returned /\ result[j].returned
         /\ Readable(FileOf(i)) /\ Readable(FileOf(j))) =>
            ((FileOf(i).bytes = FileOf(j).bytes /\ FileOf(i).code = FileOf(j).code)
               <=> result[i].sourceFileHash = result[j].sourceFileHash)

C11_IdFromKindAndQualifiedName ==
    \A i \in Inv :
        parser[i].constructed =>
            \A a, b \in 1..Len(parser[i].nodes) :
                (/\ parser[i].nodes[a].kind = parser[i].nodes[b].kind
                 /\ parser[i].nodes[a].qualified_name = parser[i].nodes[b].qualified_name)
                  <=> parser[i].nodes[a].entity_id = parser[i].nodes[b].entity_id

\* C11 witness: a name declared twice with one kind and once with another
C11_Witness ==
    \E i \in Inv :
        /\ parser[i].constructed
        /\ \E a, b, c \in 1..Len(parser[i].nodes) :
              /\ a # b
              /\ parser[i].nodes[a].kind = parser[i].nodes[b].kind
              /\ parser[i].nodes[a].qualified_name = parser[i].nodes[b].qualified_name
              /\ parser[i].nodes[c].kind # parser[i].nodes[a].kind
              /\ parser[i].nodes[c].qualified_name = parser[i].nodes[a].qualified_name

\* the step is the entry of invocation i into a function declaration
EntersFunction(i) ==
    /\ Visiting(i, {"FunctionDef", "AsyncFunctionDef"})
    /\ parser'[i] # parser[i]

\* the parameters of a declaration in the order of the signature: the
\* positional ones (positional-only first) without a method's leading
\* self / cls, *args, the keyword-only ones, **kwargs
DeclaredParameters(node, is_method) ==
    LET positional == node.args.posonlyargs \o node.args.args
        kept == IF is_method /\ positional # <<>>
                   /\ positional[1].arg \in {"self", "cls"}
                THEN Tail(positional) ELSE positional
    IN kept \o Opt(node.args.vararg) \o node.args.kwonlyargs \o Opt(node.args.kwarg)

\* C12 as stated: entering a function or method declaration appends, after
\* the node of the declaration, one parameter node for each declared
\* parameter in signature order (positional-only ones included; only a
\* method's first parameter is left out, when it is named self or cls), and
\* for each of them one PARAMETER_OF edge from the parameter to the function.
C12_ParameterNodes ==
    [][\A i \in Inv :
          EntersFunction(i) =>
            LET n0 == Len(parser[i].nodes)
                e1 == Len(parser'[i].edges)
                owner == parser'[i].nodes[n0 + 1]
                expected == DeclaredParameters(NextChild(i), owner.kind = "method")
                np == Len(parser'[i].nodes) - n0 - 1
            IN /\ np = Len(expected)
               /\ \A k \in 1..np :
                     /\ parser'[i].nodes[n0 + 1 + k].kind = "parameter"
                     /\ parser'[i].nodes[n0 + 1 + k].name = expected[k].arg
                     /\ parser'[i].edges[e1 - np + k].edge_type = "PARAMETER_OF"
                     /\ parser'[i].edges[e1 - np + k].source_entity_id =
                          parser'[i].nodes[n0 + 1 + k].entity_id
                     /\ parser'[i].edges[e1 - np + k].target_entity_id = owner.entity_id
               /\ Cardinality({e \in NewEdges(i) :
                      parser'[i].edges[e].edge_type = "PARAMETER_OF"}) = np]_vars

\* the step is the entry of invocation i into a call expression
EntersCall(i) ==
    /\ Visiting(i, {"Call"})
    /\ stack'[i] # stack[i]

\* the step appends for invocation i exactly one edge, a CALLS edge that
\* names the callee, or no edge when there is no name
EmitsCallTo(i, callee_name) ==
    IF callee_name = None THEN NewEdges(i) = {}
    ELSE /\ NewEdges(i) = {Len(parser[i].edges) + 1}
         /\ parser'[i].edges[Len(parser[i].edges) + 1].edge_type = "CALLS"
         /\ parser'[i].edges[Len(parser[i].edges) + 1].extra.callee = callee_name

\* the dotted text of a chain of names a.b.c; None for any other expression
RECURSIVE NameChain(_)
NameChain(e) ==
    CASE e.kind = "Name" -> <<e.id>>
      [] e.kind = "Attribute" ->
            IF NameChain(e.value) # None THEN NameChain(e.value) \o <<e.attr>> ELSE None
      [] OTHER -> None

\* the callee name as C13 states it
RECURSIVE ResolvableCallee(_)
ResolvableCallee(func) ==
    CASE func.kind = "Name" -> <<func.id>>
      [] func.kind = "Attribute" -> NameChain(func)
      [] func.kind = "Subscript" -> ResolvableCallee(func.value)
      [] OTHER -> None

\* the names and attributes that follow the innermost base of an attribute
\* access: all of a.b.c, only bar of foo().bar, only run of t[0].run
RECURSIVE TrailingChain(_)
TrailingChain(e) ==
    CASE e.kind = "Name" -> <<e.id>>
      [] e.kind = "Attribute" -> TrailingChain(e.value) \o <<e.attr>>
      [] OTHER -> <<>>

\* the callee name as the amended C13 states it
RECURSIVE TrailingCallee(_)
TrailingCallee(func) ==
    CASE func.kind \in {"Name", "Attribute"} -> TrailingChain(func)
      [] func.kind = "Subscript" -> TrailingCallee(func.value)
      [] OTHER -> None

\* C13 as stated: a call expression gets a CALLS edge only when its callee
\* resolves: an identifier to itself, an attribute access on a chain of
\* names to the dotted chain, a subscripted callee through its base; a
\* call-of-a-call and an attribute access on a base that is not a chain of
\* names (foo().bar(), t[0].run()) get no name and no CALLS edge.
C13_NoEdgeForUnresolvableBase ==
    [][\A i \in Inv :
          EntersCall(i) => EmitsCallTo(i, ResolvableCallee(NextChild(i).func))]_vars

\* C13 (amended): a call expression gets exactly one CALLS edge when a
\* callee name is obtained and none otherwise: an identifier yields itself,
\* an attribute access yields the dotted chain of names and attributes that
\* follows its innermost base, where a base that is not a name (a call, a
\* subscript) contributes nothing (foo().bar() yields bar), a subscripted
\* callee yields the name of its base, and a callee that is itself a call
\* (foo()()) or any other expression yields no name and no edge.
C13_TrailingCalleeName ==
    [][\A i \in Inv :
          EntersCall(i) => EmitsCallTo(i, TrailingCallee(NextChild(i).func))]_vars

\* C13 witness: the traversal of a.b.c(); t[0](); foo()(); foo().bar();
\* t[0].run() is over, and a CALLS edge names bar
C13_Witness ==
    \E i \in Inv :
        /\ result[i].returned
        /\ FileOf(i).code = OkCode(CalleeModule)
        /\ \E e \in 1..Len(result[i].edges) :
              /\ result[i].edges[e].edge_type = "CALLS"
              /\ result[i].edges[e].extra.callee = <<"bar">>

FunctionKinds == {"FunctionDef", "AsyncFunctionDef"}

\* the greatest element of a non-empty set of numbers
Max(S) == CHOOSE x \in S : \A y \in S : y <= x

\* the position, among the children of the node of the k-th active visit
\* call, of the child in which invocation i is about to visit a node
ChildIndex(i, k) ==
    Len(Children(stack[i][k].node)) - Len(stack[i][k].todo)
      + (IF k = Len(stack[i]) THEN 1 ELSE 0)

\* the active visit calls of function declarations in which the node about
\* to be visited lies, outermost first
EnclosingFunctions(i) == {k \in 1..Len(stack[i]) : stack[i][k].kind \in FunctionKinds}

\* those in whose body it lies (not in the parameters, decorators or return
\* annotation)
EnclosingFunctionBodies(i) ==
    {k \in EnclosingFunctions(i) :
        ChildIndex(i, k) \in 2..(1 + Len(stack[i][k].node.body))}

\* the id of the innermost of the visit calls ks, or the module-level id
InnermostOrModule(i, ks) ==
    IF ks = {} THEN _generate_entity_id(parser[i], "module", Basename(argv[i].path))
    ELSE stack[i][Max(ks)].entity_id

\* every CALLS edge a step appends comes from a call expression, targets
\* 'unresolved:' + its callee name, and has the given source
CallsEdgesFrom(i, source_entity_id) ==
    \A e \in NewEdges(i) :
        parser'[i].edges[e].edge_type = "CALLS" =>
            /\ EntersCall(i)
            /\ parser'[i].edges[e].source_entity_id = source_entity_id
            /\ parser'[i].edges[e].target_entity_id =
                 <<"unresolved", parser'[i].edges[e].extra.callee>>

\* C14 as stated: every CALLS edge has as source the id of the innermost
\* function or method whose body contains the call, or the module-level id
\* when no function body contains it, and as target 'unresolved:' followed
\* by the callee name.
C14_SourceIsEnclosingBody ==
    [][\A i \in Inv :
          CallsEdgesFrom(i, InnermostOrModule(i, EnclosingFunctionBodies(i)))]_vars

\* C14 (amended): every CALLS edge has as source the id of the innermost
\* function or method whose declaration (decorators, parameter defaults and
\* annotations, body) contains the call, or the module-level id when no
\* function declaration contains it, and as target 'unresolved:' followed
\* by the callee name.
C14_SourceIsEnclosingDeclaration ==
    [][\A i \in Inv :
          CallsEdgesFrom(i, InnermostOrModule(i, EnclosingFunctions(i)))]_vars

\* C14 witness: calls in a decorator, in a default, in the body of the
\* function and after it have been traversed and gave four CALLS edges, of
\* which the last has the module-level id as its source
C14_Witness ==
    \E i \in Inv :
        /\ result[i].returned
        /\ FileOf(i).code = OkCode(DecoratedModule)
        /\ Len(result[i].edges) = 5
        /\ result[i].edges[5].edge_type = "CALLS"
        /\ result[i].edges[5].source_entity_id = ModuleId(parser[i])
        /\ result[i].edges[4].source_entity_id # ModuleId(parser[i])

\* positions of the external references the step appends for invocation i
NewRefs(i) ==
    IF parser[i].constructed /\ parser'[i].constructed
    THEN (Len(parser[i].external_refs) + 1)..Len(parser'[i].external_refs) ELSE {}

\* the active visit calls of class and function declarations in which the
\* node about to be visited lies, outermost first
EnclosingScopes(i) == {k \in 1..Len(stack[i]) : stack[i][k].kind \in ScopeKinds}

\* C15 as stated: every external reference has as source_entity_id the id
\* of the innermost class or function that encloses the import, or the
\* module-level id when none does; it is never blank.
C15_SourceIsInnermostScope ==
    [][\A i \in Inv : \A r \in NewRefs(i) :
          /\ Visiting(i, {"Import", "ImportFrom"})
          /\ parser'[i].external_refs[r].source_entity_id # None
          /\ parser'[i].external_refs[r].source_entity_id =
               InnermostOrModule(i, EnclosingScopes(i))]_vars

\* an assignment, plain or annotated, whose only target is a name
SingleNameTarget(n) ==
    \/ n.kind = "Assign" /\ Len(n.targets) = 1 /\ n.targets[1].kind = "Name"
    \/ n.kind = "AnnAssign" /\ n.target.kind = "Name"

\* the active visit calls of class declarations in which the node about to
\* be visited lies
EnclosingClasses(i) == {k \in 1..Len(stack[i]) : stack[i][k].kind = "ClassDef"}

C17_MethodIffEnclosedByClass ==
    [][\A i \in Inv :
          EntersFunction(i) =>
            LET declared == parser'[i].nodes[Len(parser[i].nodes) + 1]
                into == {e \in NewContains(i) :
                           parser'[i].edges[e].target_entity_id = declared.entity_id}
            IN /\ declared.name = NextChild(i).name
               /\ (parser[i].current_class_entity_id # None) <=> (EnclosingClasses(i) # {})
               /\ IF EnclosingClasses(i) # {}
                  THEN /\ declared.kind = "method"
                       /\ Cardinality(into) = 1
                       /\ \A e \in into :
                             parser'[i].edges[e].source_entity_id =
                               stack[i][Max(EnclosingClasses(i))].entity_id
                  ELSE /\ declared.kind = "function"
                       /\ into = {}]_vars

\* C17 witness: a function declared inside a method has been emitted as a
\* method contained by the class, and a function after the class as a function
C17_Witness ==
    \E i \in Inv :
        /\ result[i].returned
        /\ \E k, f \in 1..Len(result[i].nodes), e \in 1..Len(result[i].edges) :
              /\ result[i].nodes[k].kind = "method"
              /\ result[i].nodes[k].qualified_name = <<"A", "m", "g">>
              /\ result[i].edges[e].edge_type = "CONTAINS"
              /\ result[i].edges[e].target_entity_id = result[i].nodes[k].entity_id
              /\ result[i].edges[e].source_entity_id[3] = "class"
              /\ result[i].nodes[f].kind = "function"
              /\ f > k

\* the step is the entry of invocation i into a class declaration
EntersClass(i) ==
    /\ Visiting(i, {"ClassDef"})
    /\ parser'[i] # parser[i]

\* C18: entering a class declaration appends exactly one node, of kind
\* class, and after it, for each declared base in declaration order, exactly
\* one EXTENDS edge from the id of the class, with the text of the base as
\* target_name and the class-kind id of that text alone, whatever the
\* enclosing scope, as target; a class without bases gets no EXTENDS edge.
C18_OneExtendsPerBase ==
    [][\A i \in Inv :
          /\ \A e \in NewEdges(i) :
                parser'[i].edges[e].edge_type = "EXTENDS" => EntersClass(i)
          /\ EntersClass(i) =>
                LET n1 == Len(parser[i].nodes) + 1
                    e1 == Len(parser'[i].edges)
                    bases == NextChild(i).bases
                    nb == Len(bases)
                IN /\ NewNodes(i) = {n1}
                   /\ parser'[i].nodes[n1].kind = "class"
                   /\ parser'[i].nodes[n1].name = NextChild(i).name
                   /\ {e \in NewEdges(i) : parser'[i].edges[e].edge_type = "EXTENDS"}
                        = (e1 - nb + 1)..e1
                   /\ \A k \in 1..nb :
                         LET edge == parser'[i].edges[e1 - nb + k]
                         IN /\ edge.source_entity_id = parser'[i].nodes[n1].entity_id
                            /\ edge.extra.target_name = Unparse(bases[k])
                            /\ edge.target_entity_id =
                                 _generate_entity_id(parser[i], "class", Unparse(bases[k]))]_vars

\* C18 witness: a class declared inside another with the bases B and m.C
\* has its two EXTENDS edges, in that order
C18_Witness ==
    \E i \in Inv :
        /\ result[i].returned
        /\ \E e \in 1..(Len(result[i].edges) - 1) :
              /\ result[i].edges[e].edge_type = "EXTENDS"
              /\ result[i].edges[e].source_entity_id[4] = <<<<"O", "A">>>>
              /\ result[i].edges[e].extra.target_name = <<"B">>
              /\ result[i].edges[e + 1].edge_type = "EXTENDS"
              /\ result[i].edges[e + 1].source_entity_id[4] = <<<<"O", "A">>>>
              /\ result[i].edges[e + 1].extra.target_name = <<"m", "C">>

\* C19: when the invocations run on different files with their steps
\* interleaved, each returns the result it returns when run alone
\* (parseTimeMs, the time the run took, left aside), and raises when it
\* raises alone.
C19_InterleavedAsAlone ==
    (\A i, j \in Inv : i # j => argv[i].path # argv[j].path) =>
        \A i \in Inv :
            LET alone == parse_python_file(argv[i].path, config[i])
            IN /\ result[i].returned =>
                    [result[i] EXCEPT !.parseTimeMs = 0] = alone
               /\ pc[i] \in {"raised", "crashed"} => ~alone.returned

\* C19 witness: two invocations on different files with declarations in
\* them have both returned, and both began before and ended after the same
\* tick of the clock: neither ran from start to end without the other
C19_Witness ==
    /\ argv[1].path # argv[2].path
    /\ result[1].returned /\ result[2].returned
    /\ result[1].nodes # <<>> /\ result[2].nodes # <<>>
    /\ result[1].edges # <<>> /\ result[2].edges # <<>>
    /\ result[1].nodes # result[2].nodes
    /\ locals[1].start_time = 0 /\ locals[2].start_time = 0
    /\ result[1].parseTimeMs = 1000 /\ result[2].parseTimeMs = 1000

\* C20: whenever a CONTAINS edge is appended, the enclosing entity it
\* starts from is the id of a node that was in the node list before the
\* step appended the contained node.
C20_ContainerEmittedEarlier ==
    [][\A i \in Inv : \A e \in NewContains(i) :
          /\ \E m \in NewNodes(i) :
                parser'[i].nodes[m].entity_id = parser'[i].edges[e].target_entity_id
          /\ \E k \in 1..Len(parser[i].nodes) :
                parser[i].nodes[k].entity_id = parser'[i].edges[e].source_entity_id]_vars

\* C20 witness: a class contained by a class contains a node itself
C20_Witness ==
    \E i \in Inv :
        /\ parser[i].constructed
        /\ \E d, e \in 1..Len(parser[i].edges) :
              /\ parser[i].edges[d].edge_type = "CONTAINS"
              /\ parser[i].edges[e].edge_type = "CONTAINS"
              /\ parser[i].edges[d].target_entity_id = parser[i].edges[e].source_entity_id

\* C21: every edge's edge_id is edge_type ':' source id ':' target id, and
\* edges are never deduplicated: the edge list only grows at its end, and
\* every call with a callee name and every declared base appends its edge,
\* also when an edge with the same edge_id is in the list already.
C21_EdgeIdAndNoDeduplication ==
    [][\A i \in Inv :
          (parser[i].constructed /\ parser'[i].constructed) =>
            /\ SubSeq(parser'[i].edges, 1, Len(parser[i].edges)) = parser[i].edges
            /\ \A e \in NewEdges(i) :
                  parser'[i].edges[e].edge_id =
                    <<parser'[i].edges[e].edge_type,
                      parser'[i].edges[e].source_entity_id,
                      parser'[i].edges[e].target_entity_id>>
            /\ (EntersCall(i) /\ TrailingCallee(NextChild(i).func) # None) =>
                  Cardinality({e \in NewEdges(i) :
                     parser'[i].edges[e].edge_type = "CALLS"}) = 1
            /\ EntersClass(i) =>
                  Cardinality({e \in NewEdges(i) :
                     parser'[i].edges[e].edge_type = "EXTENDS"}) = Len(NextChild(i).bases)]_vars

\* C21 witness: two calls to the same name from the same place have given
\* two edges with the same edge_id
C21_Witness ==
    \E i \in Inv :
        /\ parser[i].constructed
        /\ \E d, e \in 1..Len(parser[i].edges) :
              /\ d # e
              /\ parser[i].edges[d].edge_type = "CALLS"
              /\ parser[i].edges[d].edge_id = parser[i].edges[e].edge_id

\* the step is the visit of an import statement by invocation i
EntersImport(i) ==
    /\ Visiting(i, {"Import", "ImportFrom"})
    /\ stack'[i] # stack[i]

\* C22: an import statement naming k symbols appends exactly k external
\* references, in source order; for a from-style import at level n the
\* module_specifier is n relative markers followed by the module name, for
\* a plain import it is the module named; is_relative holds exactly when
\* n > 0, is_type_only never; imported_symbol is the name imported, the
\* wildcard token for a plain import; local_name is present exactly when an
\* alias is given that differs from the imported symbol.
C22_ImportRecords ==
    [][\A i \in Inv :
          /\ NewRefs(i) # {} => EntersImport(i)
          /\ EntersImport(i) =>
                LET node == NextChild(i)
                    r0 == Len(parser[i].external_refs)
                    from == node.kind = "ImportFrom"
                    n == IF from THEN node.level ELSE 0
                IN /\ Len(parser'[i].external_refs) = r0 + Len(node.names)
                   /\ SubSeq(parser'[i].external_refs, 1, r0) = parser[i].external_refs
                   /\ \A k \in 1..Len(node.names) :
                         LET ref == parser'[i].external_refs[r0 + k]
                             named == IF from THEN node.module ELSE node.names[k].name
                             asname == node.names[k].asname
                         IN /\ Len(ref.module_specifier) = n + Len(named)
                            /\ \A d \in 1..n : ref.module_specifier[d] = "."
                            /\ SubSeq(ref.module_specifier, n + 1, n + Len(named)) = named
                            /\ ref.is_relative <=> n > 0
                            /\ ~ref.is_type_only
                            /\ ref.imported_symbol =
                                 IF from THEN node.names[k].name ELSE <<"*">>
                            /\ ref.local_name =
                                 IF asname # None /\ asname # ref.imported_symbol
                                 THEN asname ELSE None]_vars

\* C22 witness: import os, a.b as c; from m import n as n, k as j;
\* from .. import * have given their five references
C22_Witness ==
    \E i \in Inv :
        /\ result[i].returned
        /\ FileOf(i).code = OkCode(ImportsModule)
        /\ Len(result[i].externalRefs) = 5
        /\ result[i].externalRefs[2].local_name = <<"c">>
        /\ result[i].externalRefs[3].local_name = None
        /\ result[i].externalRefs[5].is_relative

\* the nodes of the subtree of n, n included
RECURSIVE Subtree(_)
Subtree(n) == {n} \cup UNION {Subtree(Children(n)[k]) : k \in 1..Len(Children(n))}

\* C23: a function or method node carries is_generator exactly when a yield
\* expression occurs somewhere in the subtree of its declaration, the
\* bodies of nested functions included.
C23_GeneratorIffYieldInSubtree ==
    [][\A i \in Inv :
          EntersFunction(i) =>
            ("is_generator" \in parser'[i].nodes[Len(parser[i].nodes) + 1].extra.flags
               <=> \E d \in Subtree(NextChild(i)) : d.kind = "Yield")]_vars

\* C23 witness: a function whose only yield lies in a function nested in
\* it is flagged, and a function without any yield is not
C23_Witness ==
    \E i \in Inv :
        /\ result[i].returned
        /\ FileOf(i).code = OkCode(GeneratorModule)
        /\ \E k, m \in 1..Len(result[i].nodes) :
              /\ result[i].nodes[k].qualified_name = <<"outer">>
              /\ "is_generator" \in result[i].nodes[k].extra.flags
              /\ result[i].nodes[m].qualified_name = <<"plain">>
              /\ "is_generator" \notin result[i].nodes[m].extra.flags

\* the call about to be visited lies in the decorators, the parameters
\* (defaults, annotations) or the return annotation of the innermost
\* function declaration around it
InDeclarationHead(i) ==
    /\ EnclosingFunctions(i) # {}
    /\ Max(EnclosingFunctions(i)) \notin EnclosingFunctionBodies(i)

\* C24: entering a function declaration sets the function context to the
\* new function with none of the declaration traversed yet, and names each
\* parameter within the scope of the function; a call in the decorators,
\* parameter defaults or annotations of a declaration gets that function
\* as the source of its CALLS edge.
C24_ContextSetBeforeTraversal ==
    [][\A i \in Inv :
          /\ EntersFunction(i) =>
                LET n1 == Len(parser[i].nodes) + 1
                    owner == parser'[i].nodes[n1]
                IN /\ parser'[i].current_function_entity_id = owner.entity_id
                   /\ stack'[i][Len(stack'[i])].todo = Children(NextChild(i))
                   /\ \A k \in NewNodes(i) \ {n1} :
                         parser'[i].nodes[k].qualified_name =
                           owner.qualified_name \o <<parser'[i].nodes[k].name>>
          /\ (EntersCall(i) /\ InDeclarationHead(i)) =>
                \A e \in NewEdges(i) :
                    parser'[i].edges[e].source_entity_id =
                      stack[i][Max(EnclosingFunctions(i))].entity_id]_vars

\* C24 witness: the calls in the decorator and return annotation of g,
\* declared in f, have g as source, and those in the annotation and default
\* of the parameter y of h have h as source; y is named h.y
C24_Witness ==
    \E i \in Inv :
        /\ result[i].returned
        /\ FileOf(i).code = OkCode(DeclarationCallsModule)
        /\ \A c \in {"dec", "r"} : \E e \in 1..Len(result[i].edges) :
              /\ result[i].edges[e].extra.callee = <<c>>
              /\ result[i].edges[e].source_entity_id[4] = <<<<"f", "g">>>>
        /\ \A c \in {"t", "d"} : \E e \in 1..Len(result[i].edges) :
              /\ result[i].edges[e].extra.callee = <<c>>
              /\ result[i].edges[e].source_entity_id[4] = <<<<"h">>>>
        /\ \E k \in 1..Len(result[i].nodes) :
              /\ result[i].nodes[k].kind = "parameter"
              /\ result[i].nodes[k].qualified_name = <<"h", "y">>

====
